---- MODULE Spec2Model ----
(***************************************************************************)
(* A model of pinry_cli.py: the PinryClient HTTP client, the configuration *)
(* loader and the `config` / `add` commands.  Every HTTP request is one    *)
(* step: the request is appended to `log` together with the response the   *)
(* remote service chose for it, and the code runs on to its next request.  *)
(* Response bodies are JSON: a list or an object.  `listed` is the body of *)
(* the latest board listing the service returned.                         *)
(***************************************************************************)
EXTENDS Integers, Sequences, FiniteSets, TLC

VARIABLES pc, mode, op, config_file, client, cached_boards, args, locals,
          pending, log, listed, outcome, stdout

vars == <<pc, mode, op, config_file, client, cached_boards, args, locals,
          pending, log, listed, outcome, stdout>>

-----------------------------------------------------------------------------
\* Bounds of the model.
MaxId == 2
MaxListing == 2

\* Status codes the code compares against.
OK == 200
CREATED == 201

Statuses == {OK, CREATED, 400}
Ids == 1..MaxId
Names == {"Inbox", "Art"}
None == "None"
BoardArgs == Names \cup {None}

ConfigKeys == {"token", "pinry_url", "extra"}
ConfigFiles ==
    {[exists |-> FALSE, keys |-> {}]} \cup [exists : {TRUE}, keys : SUBSET ConfigKeys]
NoConfig == [isNone |-> TRUE, keys |-> {}]

-----------------------------------------------------------------------------
\* What the remote service can answer.
BoardRecs == [name : Names, id : Ids]
DistinctNames(s) == \A i, j \in DOMAIN s : i # j => s[i].name # s[j].name
Listings ==
    {s \in UNION {[1..k -> BoardRecs] : k \in 0..MaxListing} : DistinctNames(s)}

\* boards-auto-complete: a 200 answer is a list of boards, an error answer
\* is an error object.  The code reads the body only, never the status.
ListingResponses ==
    [status : Statuses \ {OK}, body : {"object"}, boards : {<<>>}]
    \cup [status : {OK}, body : {"list"}, boards : Listings]

\* profile/users: a list (possibly empty) or an object.
ProfileResponses ==
    [status : Statuses, body : {"object"}, boards : {<<>>}]
    \cup [status : Statuses, body : {"list"},
          boards : {<<>>, <<[name |-> "user", id |-> 1]>>}]

-----------------------------------------------------------------------------
\* Requests as logged: the request's fields and the response's.
Req(method, url) ==
    [method |-> method, url |-> url, name |-> "", board |-> 0, pin |-> 0,
     image |-> 0, status |-> 0, rid |-> 0, link |-> 0, body |-> "none",
     items |-> 0]

ListReq(r) ==
    [Req("GET", "boards-auto-complete") EXCEPT
        !.status = r.status, !.body = r.body, !.items = Len(r.boards)]

EmptyMap == [n \in {} |-> 0]
NoCache == [isNone |-> TRUE, map |-> EmptyMap]

InitLocals ==
    [config_data |-> NoConfig, image_id |-> 0, pin_id |-> 0, link |-> 0,
     board_id |-> 0]
NoArgs == [board |-> None, target |-> "none"]
NoOutcome == [kind |-> "none", err |-> "", link |-> 0, flag |-> FALSE, code |-> 0]
Raised(e) == [NoOutcome EXCEPT !.kind = "raise", !.err = e, !.code = 1]
Returned(l) == [NoOutcome EXCEPT !.kind = "return", !.link = l]
Exited(c, e) == [NoOutcome EXCEPT !.kind = "exit", !.code = c, !.err = e]

-----------------------------------------------------------------------------
\* get_config: None unless the file exists and holds both keys.
get_config_no_url_check(f) ==
    IF ~f.exists THEN NoConfig
    ELSE IF "token" \notin f.keys THEN NoConfig
    ELSE [isNone |-> FALSE, keys |-> f.keys]

get_config(f) ==
    IF ~f.exists THEN NoConfig
    ELSE IF "token" \notin f.keys THEN NoConfig
    ELSE IF "pinry_url" \notin f.keys THEN NoConfig
    ELSE [isNone |-> FALSE, keys |-> f.keys]

\* from_config: PinryClient(**config) binds exactly pinry_url and token;
\* any other key set is a TypeError and no client is constructed.
from_config(config) == config.keys = {"token", "pinry_url"}

\* _update_board_caches: the cache becomes {} and is then filled from the
\* listing, entry by entry; iterating an error object raises after the reset.
Put(m, k, v) == [x \in (DOMAIN m) \cup {k} |-> IF x = k THEN v ELSE m[x]]

RECURSIVE Fill(_, _)
Fill(m, data) ==
    IF data = <<>> THEN m
    ELSE Fill(Put(m, Head(data).name, Head(data).id), Tail(data))

update_board_caches_merge(c, r) ==
    [isNone |-> FALSE,
     map |-> IF r.body = "list" THEN Fill(c.map, r.boards) ELSE c.map]

update_board_caches(c, r) ==
    [isNone |-> FALSE,
     map |-> IF r.body = "list" THEN Fill(EmptyMap, r.boards) ELSE EmptyMap]

\* The boards property: the cache when set, else one listing request.
\* Answers(c): what a read of the property can be answered with; the service
\* is asked only while the cache is unset.
NoAnswer == [status |-> 0, body |-> "none", boards |-> <<>>]
Answers(c) == IF c.isNone THEN ListingResponses ELSE {NoAnswer}

boards(c, r) ==
    IF ~c.isNone
    THEN [cache |-> c, reqs |-> <<>>, listed |-> listed, raised |-> FALSE]
    ELSE [cache |-> update_board_caches(c, r), reqs |-> <<ListReq(r)>>,
          listed |-> r.boards, raised |-> r.body # "list"]

\* is_token_valid
is_token_valid_any_200(resp) == resp.status = OK

is_token_valid(resp) ==
    IF resp.status # OK THEN FALSE
    ELSE ~(resp.body = "list" /\ resp.boards = <<>>)

\* The checks of _upload_image and _create_pin.
path_exists_unchecked(target) == TRUE
path_exists(target) == target = "file"

upload_created_any_2xx(status) == status \in {OK, CREATED}
upload_created(status) == status = CREATED

pin_created_any_2xx(status) == status \in {OK, CREATED}
pin_created(status) == status = CREATED

wants_board_always(board_name) == TRUE
wants_board(board_name) == board_name # None

patch_ok_unchecked(status) == TRUE
patch_ok(status) == status = OK

\* create_pin's dispatch on the positional argument.
dispatch(target) == IF target = "url" THEN "pin_post" ELSE "upload"

-----------------------------------------------------------------------------
Init ==
    /\ pc = "idle"
    /\ mode = "cli"
    /\ op = "none"
    /\ config_file \in ConfigFiles
    /\ client = FALSE
    /\ cached_boards = NoCache
    /\ args = NoArgs
    /\ locals = InitLocals
    /\ pending = {}
    /\ log = <<>>
    /\ listed = <<>>
    /\ outcome = NoOutcome
    /\ stdout = <<>>

\* An operation ends by raising.
Raise(e) ==
    /\ pc' = "done"
    /\ outcome' = Raised(e)
    /\ stdout' = stdout

\* _create_pin returns the link; the `add` command prints it.
Return(link) ==
    /\ pc' = "done"
    /\ IF mode = "cli"
       THEN /\ stdout' = Append(stdout, link)
            /\ outcome' = Exited(0, "")
       ELSE /\ stdout' = stdout
            /\ outcome' = Returned(link)

\* `config` command: writes both keys.
create_config ==
    /\ pc = "idle"
    /\ config_file' = [exists |-> TRUE, keys |-> {"token", "pinry_url"}]
    /\ op' = "config"
    /\ mode' = "cli"
    /\ client' = FALSE
    /\ cached_boards' = NoCache
    /\ listed' = <<>>
    /\ args' = NoArgs
    /\ locals' = InitLocals
    /\ pending' = {}
    /\ log' = <<>>
    /\ outcome' = Exited(0, "")
    /\ stdout' = <<>>
    /\ pc' = "done"

\* `add` command up to its first request: load the configuration, build the client.
create_pin ==
    /\ pc = "idle"
    /\ \E board \in BoardArgs, target \in {"url", "file", "missing"} :
        LET config_data == get_config(config_file) IN
        /\ op' = "add"
        /\ mode' = "cli"
        /\ args' = [board |-> board, target |-> target]
        /\ locals' = [InitLocals EXCEPT !.config_data = config_data]
        /\ cached_boards' = NoCache
        /\ listed' = <<>>
        /\ pending' = {}
        /\ log' = <<>>
        /\ stdout' = <<>>
        /\ IF config_data.isNone
           THEN /\ client' = FALSE
                /\ outcome' = Exited(1, "config file invalid or doesn't exist")
                /\ pc' = "done"
           ELSE IF ~from_config(config_data)
           THEN /\ client' = FALSE
                /\ outcome' = Raised("TypeError")
                /\ pc' = "done"
           ELSE /\ client' = TRUE
                /\ outcome' = NoOutcome
                /\ pc' = "add_boards"
    /\ UNCHANGED config_file

\* `add`: `if board not in client.boards: client.create_boards({board})`.
add_check_board ==
    /\ pc = "add_boards"
    /\ \E r \in Answers(cached_boards) :
        LET b == boards(cached_boards, r) IN
        /\ cached_boards' = b.cache
        /\ listed' = b.listed
        /\ log' = log \o b.reqs
        /\ IF b.raised
           THEN Raise("TypeError") /\ pending' = pending
           ELSE IF args.board \notin DOMAIN b.cache.map
           THEN /\ pending' = {args.board}
                /\ pc' = "cb_post"
                /\ UNCHANGED <<outcome, stdout>>
           ELSE /\ pending' = pending
                /\ pc' = dispatch(args.target)
                /\ UNCHANGED <<outcome, stdout>>
    /\ UNCHANGED <<mode, op, config_file, client, args, locals>>

\* create_boards: one POST per name, the response is not looked at.
create_boards_post ==
    /\ pc = "cb_post"
    /\ pending # {}
    /\ \E name \in pending, status \in Statuses :
        /\ log' = Append(log, [Req("POST", "boards") EXCEPT
                                  !.name = name, !.status = status])
        /\ pending' = pending \ {name}
        /\ pc' = IF pending' = {} THEN "cb_refresh" ELSE "cb_post"
    /\ UNCHANGED <<mode, op, config_file, client, cached_boards, listed, args, locals,
                   outcome, stdout>>

\* create_boards: the closing _update_board_caches.
create_boards_refresh ==
    /\ pc = "cb_refresh"
    /\ \E r \in ListingResponses :
        /\ cached_boards' = update_board_caches(cached_boards, r)
        /\ listed' = r.boards
        /\ log' = Append(log, ListReq(r))
        /\ IF r.body # "list"
           THEN Raise("TypeError")
           ELSE IF mode = "cli"
           THEN /\ pc' = dispatch(args.target)
                /\ UNCHANGED <<outcome, stdout>>
           ELSE /\ pc' = "done"
                /\ outcome' = Returned(0)
                /\ stdout' = stdout
    /\ UNCHANGED <<mode, op, config_file, client, args, locals, pending>>

\* _upload_image
upload_image ==
    /\ pc = "upload"
    /\ IF ~path_exists(args.target)
       THEN /\ Raise("not found")
            /\ UNCHANGED <<log, locals>>
       ELSE \E status \in Statuses, id \in Ids :
            /\ log' = Append(log, [Req("POST", "images") EXCEPT
                                      !.status = status, !.rid = id])
            /\ IF ~upload_created(status)
               THEN Raise("upload") /\ locals' = locals
               ELSE /\ locals' = [locals EXCEPT !.image_id = id]
                    /\ pc' = "pin_post"
                    /\ UNCHANGED <<outcome, stdout>>
    /\ UNCHANGED <<mode, op, config_file, client, cached_boards, listed, args, pending>>

\* _create_pin: the pin POST.
create_pin_post ==
    /\ pc = "pin_post"
    /\ \E status \in Statuses, id \in Ids, link \in Ids :
        /\ log' = Append(log, [Req("POST", "pins") EXCEPT
                                  !.image = locals.image_id, !.status = status,
                                  !.rid = id, !.link = link])
        /\ IF ~pin_created(status)
           THEN Raise("create pin") /\ locals' = locals
           ELSE /\ locals' = [locals EXCEPT !.pin_id = id, !.link = link]
                /\ IF wants_board(args.board)
                   THEN /\ pc' = "get_board_url"
                        /\ UNCHANGED <<outcome, stdout>>
                   ELSE Return(link)
    /\ UNCHANGED <<mode, op, config_file, client, cached_boards, listed, args, pending>>

\* _create_pin: _get_board_url, a lookup in the boards property.
get_board_url ==
    /\ pc = "get_board_url"
    /\ \E r \in Answers(cached_boards) :
        LET b == boards(cached_boards, r) IN
        /\ cached_boards' = b.cache
        /\ listed' = b.listed
        /\ log' = log \o b.reqs
        /\ IF b.raised
           THEN Raise("TypeError") /\ locals' = locals
           ELSE IF args.board \notin DOMAIN b.cache.map
           THEN Raise("KeyError") /\ locals' = locals
           ELSE /\ locals' = [locals EXCEPT !.board_id = b.cache.map[args.board]]
                /\ pc' = "patch"
                /\ UNCHANGED <<outcome, stdout>>
    /\ UNCHANGED <<mode, op, config_file, client, args, pending>>

\* _create_pin: the board PATCH and the return.
patch_board ==
    /\ pc = "patch"
    /\ \E status \in Statuses :
        /\ log' = Append(log, [Req("PATCH", "board") EXCEPT
                                  !.board = locals.board_id, !.pin = locals.pin_id,
                                  !.status = status])
        /\ IF ~patch_ok(status)
           THEN Raise("add pin to board")
           ELSE Return(locals.link)
    /\ UNCHANGED <<mode, op, config_file, client, cached_boards, listed, args, locals,
                   pending>>

-----------------------------------------------------------------------------
\* The client used as a library.

\* PinryClient.__init__
PinryClient ==
    /\ pc = "idle"
    /\ mode' = "lib"
    /\ op' = "init"
    /\ client' = TRUE
    /\ cached_boards' = NoCache
    /\ listed' = <<>>
    /\ args' = NoArgs
    /\ locals' = InitLocals
    /\ pending' = {}
    /\ log' = <<>>
    /\ outcome' = Returned(0)
    /\ stdout' = <<>>
    /\ pc' = "done"
    /\ UNCHANGED config_file

LibIdle == pc = "idle" /\ mode = "lib" /\ client

call_is_token_valid ==
    /\ LibIdle
    /\ \E resp \in ProfileResponses :
        /\ log' = <<[Req("GET", "profile") EXCEPT
                        !.status = resp.status, !.body = resp.body,
                        !.items = Len(resp.boards)]>>
        /\ outcome' = [Returned(0) EXCEPT !.flag = is_token_valid(resp)]
    /\ op' = "is_token_valid"
    /\ args' = NoArgs
    /\ locals' = InitLocals
    /\ pc' = "done"
    /\ UNCHANGED <<mode, config_file, client, cached_boards, listed, pending, stdout>>

read_boards ==
    /\ LibIdle
    /\ \E r \in Answers(cached_boards) :
        LET b == boards(cached_boards, r) IN
        /\ cached_boards' = b.cache
        /\ listed' = b.listed
        /\ log' = b.reqs
        /\ outcome' = IF b.raised THEN Raised("TypeError") ELSE Returned(0)
    /\ op' = "boards"
    /\ args' = NoArgs
    /\ locals' = InitLocals
    /\ pc' = "done"
    /\ UNCHANGED <<mode, config_file, client, pending, stdout>>

call_create_boards ==
    /\ LibIdle
    /\ \E names \in SUBSET Names :
        /\ pending' = names
        /\ pc' = IF names = {} THEN "cb_refresh" ELSE "cb_post"
    /\ op' = "create_boards"
    /\ args' = NoArgs
    /\ locals' = InitLocals
    /\ log' = <<>>
    /\ outcome' = NoOutcome
    /\ UNCHANGED <<mode, config_file, client, cached_boards, listed, stdout>>

call_create ==
    /\ LibIdle
    /\ \E board \in BoardArgs :
        args' = [board |-> board, target |-> "url"]
    /\ op' = "create"
    /\ pc' = "pin_post"
    /\ locals' = InitLocals
    /\ log' = <<>>
    /\ outcome' = NoOutcome
    /\ UNCHANGED <<mode, config_file, client, cached_boards, listed, pending, stdout>>

call_create_with_file_upload ==
    /\ LibIdle
    /\ \E board \in BoardArgs, target \in {"file", "missing"} :
        args' = [board |-> board, target |-> target]
    /\ op' = "create_with_file_upload"
    /\ pc' = "upload"
    /\ locals' = InitLocals
    /\ log' = <<>>
    /\ outcome' = NoOutcome
    /\ UNCHANGED <<mode, config_file, client, cached_boards, listed, pending, stdout>>

\* The operation is over: the `add` / `config` process exits and its client
\* is gone; a library call hands its result to the caller, the client stays.
finish ==
    /\ pc = "done"
    /\ pc' = "idle"
    /\ op' = "none"
    /\ client' = (mode = "lib" /\ client)
    /\ cached_boards' = IF mode = "lib" THEN cached_boards ELSE NoCache
    /\ listed' = IF mode = "lib" THEN listed ELSE <<>>
    /\ args' = NoArgs
    /\ locals' = InitLocals
    /\ pending' = {}
    /\ log' = <<>>
    /\ outcome' = NoOutcome
    /\ stdout' = <<>>
    /\ UNCHANGED <<mode, config_file>>

Next ==
    \/ finish
    \/ create_config
    \/ create_pin
    \/ add_check_board
    \/ create_boards_post
    \/ create_boards_refresh
    \/ upload_image
    \/ create_pin_post
    \/ get_board_url
    \/ patch_board
    \/ PinryClient
    \/ call_is_token_valid
    \/ read_boards
    \/ call_create_boards
    \/ call_create
    \/ call_create_with_file_upload

Spec == Init /\ [][Next]_vars

-----------------------------------------------------------------------------
\* Vocabulary of the properties.
IsBoardPost(e) == e.method = "POST" /\ e.url = "boards"
IsListing(e) == e.method = "GET" /\ e.url = "boards-auto-complete"
IsImagePost(e) == e.method = "POST" /\ e.url = "images"
IsPinPost(e) == e.method = "POST" /\ e.url = "pins"
IsPatch(e) == e.method = "PATCH" /\ e.url = "board"
IsProfileGet(e) == e.method = "GET" /\ e.url = "profile"

\* 200 for reads and updates, 201 for creations; anything else is an error.
Failed(e) == IF e.method = "POST" THEN e.status # CREATED ELSE e.status # OK

\* The operation handed this link to its caller: printed by `add`, returned
\* by the client's methods.
Delivered(l) ==
    IF mode = "cli"
    THEN stdout = <<l>> /\ outcome.kind = "exit" /\ outcome.code = 0
    ELSE stdout = <<>> /\ outcome.kind = "return" /\ outcome.link = l

\* The step issued one request, a board listing.
ListingIssued == Len(log') = Len(log) + 1 /\ IsListing(log'[Len(log')])

\* The name-to-id pairs of a listing, as a mapping.
PairsMap(listing) ==
    [n \in {listing[i].name : i \in DOMAIN listing} |->
        listing[CHOOSE i \in DOMAIN listing : listing[i].name = n].id]

BothKeys == {"token", "pinry_url"}

-----------------------------------------------------------------------------
\* C1: in an `add` invocation a board-creation POST is issued only if a board
\* name was given on the command line and that name is not in the client's
\* board mapping; with --board omitted no board-creation POST is issued.
C1_BoardPostOnlyForGivenUnknownName ==
    op = "add" =>
        \A i \in DOMAIN log :
            IsBoardPost(log[i]) =>
                /\ args.board # None
                /\ log[i].name = args.board
                /\ pc = "cb_refresh" => args.board \notin DOMAIN cached_boards.map

\* C2: in an `add` invocation, once any request has come back with an error
\* status the invocation never prints the link and ends with an error.
C2_RemoteFailureIsFatal ==
    (op = "add" /\ \E i \in DOMAIN log : Failed(log[i])) =>
        /\ stdout = <<>>
        /\ pc = "done" => outcome.kind = "raise"

\* C3: a pin POST answered with a status other than 201 is the operation's
\* last request (no PATCH follows), no board id is looked up, and the
\* operation has ended with an error and delivered no link.
C3_FailedPinEndsOperation ==
    \A i \in DOMAIN log :
        (IsPinPost(log[i]) /\ log[i].status # CREATED) =>
            /\ i = Len(log)
            /\ pc = "done"
            /\ outcome.kind = "raise"
            /\ locals.board_id = 0
            /\ stdout = <<>>

C3_Witness ==
    /\ pc = "done"
    /\ args.board # None
    /\ \E i \in DOMAIN log : IsPinPost(log[i]) /\ log[i].status # CREATED

\* C4: with board_name None, create and create_with_file_upload (called
\* directly or by `add`) issue no PATCH, and a pin POST answered 201 is the
\* last request and its resource_link is what the operation delivers.
C4_NoPatchWithoutBoardName ==
    (op \in {"create", "create_with_file_upload", "add"} /\ args.board = None) =>
        /\ \A i \in DOMAIN log : ~IsPatch(log[i])
        /\ \A i \in DOMAIN log :
            (IsPinPost(log[i]) /\ log[i].status = CREATED) =>
                /\ i = Len(log)
                /\ pc = "done"
                /\ Delivered(log[i].link)

C4_Witness ==
    /\ op = "create_with_file_upload"
    /\ args.board = None
    /\ pc = "done"
    /\ \E i \in DOMAIN log : IsPinPost(log[i]) /\ log[i].status = CREATED

\* C5: after a pin POST answered 201, a failed association (the name is not
\* in the board mapping, or the PATCH is answered with a status other than
\* 200) ends the operation with an error, delivers no link and is followed by
\* no request; the board id is resolved, and the PATCH sent, only after a pin
\* POST answered 201.
C5_NoRollbackAfterPin ==
    /\ \A i \in DOMAIN log :
        (IsPatch(log[i]) /\ log[i].status # OK) =>
            /\ i = Len(log)
            /\ pc = "done"
            /\ outcome.kind = "raise"
            /\ outcome.link = 0
            /\ stdout = <<>>
    /\ outcome.err = "KeyError" =>
            /\ pc = "done"
            /\ outcome.kind = "raise"
            /\ outcome.link = 0
            /\ stdout = <<>>
            /\ \A i \in DOMAIN log : ~IsPatch(log[i])
            /\ \E i \in DOMAIN log :
                /\ IsPinPost(log[i]) /\ log[i].status = CREATED
                /\ \A j \in DOMAIN log : j > i => IsListing(log[j])
    /\ \A i \in DOMAIN log :
        IsPatch(log[i]) =>
            \E j \in 1..(i - 1) : IsPinPost(log[j]) /\ log[j].status = CREATED
    /\ locals.board_id # 0 =>
            \E j \in DOMAIN log : IsPinPost(log[j]) /\ log[j].status = CREATED

C5_Witness ==
    /\ pc = "done"
    /\ \E i, j \in DOMAIN log :
        /\ IsPinPost(log[i]) /\ log[i].status = CREATED
        /\ IsPatch(log[j]) /\ log[j].status # OK

\* C6: on the file path every pin POST comes after an image POST answered 201
\* and carries that answer's id as image_by_id; an image POST answered with
\* any other status is the last request and the operation has failed.
C6_UploadThenPin ==
    args.target \in {"file", "missing"} =>
        /\ \A i \in DOMAIN log :
            IsPinPost(log[i]) =>
                \E j \in 1..(i - 1) :
                    /\ IsImagePost(log[j])
                    /\ log[j].status = CREATED
                    /\ log[j].rid = log[i].image
        /\ \A j \in DOMAIN log :
            (IsImagePost(log[j]) /\ log[j].status # CREATED) =>
                /\ j = Len(log)
                /\ pc = "done"
                /\ outcome.kind = "raise"
                /\ stdout = <<>>

C6_Witness ==
    /\ op = "create_with_file_upload"
    /\ \E i \in DOMAIN log : IsPinPost(log[i]) /\ log[i].image # 0

\* C7: with a nonexistent local path no image POST, pin POST or PATCH is ever
\* issued and no link is delivered; create_with_file_upload ends with the
\* not-found error having issued no request at all.
C7_MissingPathFailsBeforeNetwork ==
    args.target = "missing" =>
        /\ \A i \in DOMAIN log :
            ~IsImagePost(log[i]) /\ ~IsPinPost(log[i]) /\ ~IsPatch(log[i])
        /\ stdout = <<>>
        /\ outcome.kind # "return"
        /\ (pc = "done" /\ op = "create_with_file_upload") =>
            outcome = Raised("not found") /\ log = <<>>

C7_Witness ==
    /\ op = "create_with_file_upload"
    /\ args.target = "missing"
    /\ pc = "done"
    /\ outcome.err = "not found"

\* C8: for a configuration file that does not exist or lacks token or
\* pinry_url, get_config yields None and `add` exits with status 1 with no
\* client constructed and no request issued; a loaded configuration holds
\* both keys, and so does every configuration a client is built from.
C8_AbsentConfigExitsOne ==
    op = "add" =>
        /\ (~config_file.exists \/ ~(BothKeys \subseteq config_file.keys)) =>
            /\ locals.config_data = NoConfig
            /\ pc = "done"
            /\ outcome.kind = "exit"
            /\ outcome.code = 1
            /\ ~client
            /\ log = <<>>
            /\ stdout = <<>>
        /\ ~locals.config_data.isNone => BothKeys \subseteq locals.config_data.keys
        /\ client =>
            /\ ~locals.config_data.isNone
            /\ BothKeys \subseteq config_file.keys

C8_Witness ==
    /\ op = "add"
    /\ pc = "done"
    /\ config_file.exists
    /\ "token" \in config_file.keys
    /\ "pinry_url" \notin config_file.keys

\* C9: is_token_valid issues exactly one request, a GET of the profile
\* endpoint, returns false when the status is not 200 or the body is the
\* empty list and true otherwise, and leaves the client and its board cache
\* as they were.
C9_TokenValidity ==
    [][(pc = "idle" /\ op' = "is_token_valid") =>
        /\ Len(log') = 1
        /\ IsProfileGet(log'[1])
        /\ outcome'.kind = "return"
        /\ outcome'.flag =
            (log'[1].status = OK /\ ~(log'[1].body = "list" /\ log'[1].items = 0))
        /\ cached_boards' = cached_boards
        /\ client' = client]_vars

C9_Witness ==
    /\ op = "is_token_valid"
    /\ ~cached_boards.isNone
    /\ cached_boards.map # EmptyMap
    /\ log[1].status = OK
    /\ log[1].body = "list"
    /\ log[1].items = 0
    /\ outcome.flag = FALSE

\* C10: a board listing is requested only by a read of boards while the
\* cache is unset and by the end of create_boards, after all of its POSTs;
\* the cache is filled by those steps alone and then holds exactly the pairs
\* of that listing; a read of boards while the cache is set issues no request
\* and leaves the cache as it is.
C10_CacheRefresh ==
    [][/\ ListingIssued =>
            /\ \/ pc = "cb_refresh" /\ pending = {}
               \/ cached_boards.isNone /\ pc \in {"add_boards", "get_board_url", "idle"}
            /\ ~cached_boards'.isNone
            /\ cached_boards'.map = PairsMap(listed')
       /\ (cached_boards' # cached_boards /\ ~cached_boards'.isNone) => ListingIssued
       /\ pc = "cb_post" => pc' \in {"cb_post", "cb_refresh"}
       /\ pc = "cb_refresh" => ListingIssued
       /\ (~cached_boards.isNone /\
             (pc \in {"add_boards", "get_board_url"} \/ (pc = "idle" /\ op' = "boards"))) =>
            /\ cached_boards' = cached_boards
            /\ Len(log') = Len(log)]_vars

C10_Witness ==
    /\ op = "add"
    /\ args.board # None
    /\ Len(log) = 3
    /\ IsListing(log[1]) /\ log[1].items = 1
    /\ IsListing(log[3]) /\ log[3].items = 0
    /\ cached_boards.map = EmptyMap

====
